---------------------------- MODULE Spec2Model ----------------------------
(***************************************************************************)
(* ckb-transactions-simulator: the cell ledger (src/src/storage.rs), the   *)
(* synchronizer, the input selector, the transaction builder and the run   *)
(* loop (src/src/config/run.rs) as one state machine.                      *)
(*                                                                         *)
(* An Option<T> is a sequence: <<>> is None, <<v>> is Some(v).             *)
(* A storage namespace (column family) is a function from keys to values.  *)
(* An out_point is <<tx_hash, index>>, the index counted from 0.           *)
(***************************************************************************)
EXTENDS Integers, Sequences, FiniteSets, TLC

(***************************************************************************)
(* Bounds of the model.                                                    *)
(***************************************************************************)
\* The highest tip the remote node ever reports.
MaxTip == 5
\* The largest batch size the input size generator draws (the code: < 1000).
MaxTarget == 3
\* Bounds of the inputs the transaction builder is applied to on its own.
MaxBatch == 2
MaxCapBytes == 2
MaxOutputBytes == 2
MaxOutputsLimit == 3
\* The largest batch prepare_inputs and sign_transaction are applied to on
\* their own.
MaxPrepared == 4
\* The out_points of the store spend_cell is applied to on its own.
MaxStoreKeys == 3

(***************************************************************************)
(* Program constants and the configuration of the run.                     *)
(***************************************************************************)
BYTE_SHANNONS == 100000000

\* RunEnv (run.yaml) of the modelled run.
delay_blocks == 1
inputs_limit == 2
outputs_limit == 2
output_capacity == 1
output_min_capacity == 2
tx_fee == 100

\* MetaData.start_block of the modelled store.
start_block_number == 1

Min(a, b) == IF a < b THEN a ELSE b

None == <<>>
Some(v) == <<v>>

(***************************************************************************)
(* Accounts: lock hash -> LockInfo.  "Z" is the lock script of nobody the  *)
(* engine manages.                                                         *)
(***************************************************************************)
accounts ==
    ("hA" :> [id |-> "secp256k1_blake160", script |-> "A"]) @@
    ("hB" :> [id |-> "pwlock-k1-acpl", script |-> "B"])

Out(lock, bytes) == [lock |-> lock, capacity |-> bytes * BYTE_SHANNONS]
Tx(hash, inputs, outputs) == [hash |-> hash, inputs |-> inputs, outputs |-> outputs]

(***************************************************************************)
(* The remote chains of the model: chain[n] is the block of number n, a    *)
(* sequence of transactions.  Every out_point is created by one            *)
(* transaction.                                                            *)
(***************************************************************************)
\* Three cells of one byte each: a batch needs all three to reach the value
\* threshold.  An input that spends a foreign cell, one that spends a
\* tracked cell.
ChainLow ==
    << << Tx(1, <<>>, <<Out("A", 1), Out("A", 1), Out("Z", 3)>>) >>,
       << Tx(2, << <<1, 2>> >>, <<Out("B", 1), Out("A", 3)>>) >>,
       << Tx(3, << <<1, 0>> >>, <<Out("B", 2)>>) >>,
       << Tx(4, << <<2, 1>> >>, <<Out("A", 2)>>) >>,
       << Tx(5, << <<1, 1>>, <<2, 0>> >>, <<Out("A", 1), Out("Z", 1)>>) >>,
       << Tx(6, <<>>, <<Out("Z", 1)>>) >>,
       << Tx(7, <<>>, <<Out("Z", 1)>>) >> >>

\* A cell created and spent in the same block, two owners in one batch, and
\* cells spent on the chain after the engine may have spent them itself.
ChainMix ==
    << << Tx(1, <<>>, <<Out("A", 3)>>),
          Tx(2, << <<1, 0>> >>, <<Out("B", 3), Out("Z", 1)>>) >>,
       << Tx(3, <<>>, <<Out("A", 3)>>) >>,
       << Tx(4, << <<2, 0>>, <<3, 0>> >>, <<Out("B", 3), Out("A", 2)>>) >>,
       << Tx(5, << <<4, 0>> >>, <<Out("A", 3)>>) >>,
       << Tx(6, << <<4, 1>> >>, <<Out("B", 1)>>) >>,
       << Tx(7, <<>>, <<Out("Z", 1)>>) >>,
       << Tx(8, <<>>, <<Out("Z", 1)>>) >> >>

\* Little to spend: after its first blocks the tracked cells are not worth
\* a batch.
ChainPoor ==
    << << Tx(1, <<>>, <<Out("A", 1)>>) >>,
       << Tx(2, <<>>, <<Out("Z", 1)>>) >>,
       << Tx(3, <<>>, <<Out("B", 1)>>) >>,
       << Tx(4, << <<1, 0>> >>, <<Out("A", 2)>>) >>,
       << Tx(5, <<>>, <<Out("Z", 1)>>) >>,
       << Tx(6, <<>>, <<Out("Z", 1)>>) >> >>

Chains == {ChainLow, ChainMix, ChainPoor}

(***************************************************************************)
(* Storage (src/src/storage.rs): the two namespaces and the cursor key.    *)
(***************************************************************************)
\* Mutant: a put on a key that is there adds the capacity to its record.
put_merge(map, key, value) == IF key \in DOMAIN map THEN [map EXCEPT ![key].capacity = @ + value.capacity] ELSE (key :> value) @@ map

put(map, key, value) == (key :> value) @@ map
delete(map, key) == [k \in DOMAIN map \ {key} |-> map[k]]
get(map, key) == IF key \in DOMAIN map THEN Some(map[key]) ELSE None

CellInfo(capacity, lock_hash) == [capacity |-> capacity, lock_hash |-> lock_hash]
InputInfo(out_point, cell_info) == [out_point |-> out_point, cell_info |-> cell_info]

\* Mutant: the stored number is handed back as it is.
get_next_number_same(stored) == stored

\* Storage::get_next_number: the stored number plus one.
get_next_number(stored) == IF stored = None THEN None ELSE Some(stored[1] + 1)


\* Storage::load_cells iterates the cells namespace in key order: the bytes
\* of the out_point, the transaction hash first.
OutPointLess(a, b) == a[1] < b[1] \/ (a[1] = b[1] /\ a[2] < b[2])

RECURSIVE KeysInOrder(_)
KeysInOrder(keys) ==
    IF keys = {} THEN <<>>
    ELSE LET first == CHOOSE k \in keys : \A o \in keys \ {k} : OutPointLess(k, o)
         IN  <<first>> \o KeysInOrder(keys \ {first})

load_cells(cf_cells) ==
    LET keys == KeysInOrder(DOMAIN cf_cells)
    IN  [i \in 1..Len(keys) |-> InputInfo(keys[i], cf_cells[keys[i]])]

(***************************************************************************)
(* The storage calls synchronize makes for one block, in the order of its  *)
(* loops: per transaction, add_cell for every output whose lock is a       *)
(* managed account's script, then rm_cell for every input; put_prev_number *)
(* after the last transaction.                                             *)
(***************************************************************************)
\* The iteration order of the accounts map (any order: it is fixed here).
AccountOrder == <<"hA", "hB">>

\* Mutant: the lock script is not compared.
LockMatchesAny(output, lock_info) == TRUE

\* run.rs:167, output.lock() == lock_info.script
LockMatches(output, lock_info) == output.lock = lock_info.script

RECURSIVE AccountCalls(_, _, _)
AccountCalls(tx, index, a) ==
    IF a > Len(AccountOrder) THEN <<>>
    ELSE LET hash == AccountOrder[a]
             output == tx.outputs[index + 1]
         IN  (IF LockMatches(output, accounts[hash])
              THEN << [op |-> "add_cell", key |-> <<tx.hash, index>>,
                       info |-> CellInfo(output.capacity, hash)] >>
              ELSE <<>>)
             \o AccountCalls(tx, index, a + 1)

RECURSIVE OutputCalls(_, _)
OutputCalls(tx, index) ==
    IF index >= Len(tx.outputs) THEN <<>>
    ELSE AccountCalls(tx, index, 1) \o OutputCalls(tx, index + 1)

\* Mutant: the index of the previous output is dropped.
InputCallsFirstOutput(tx) == [i \in 1..Len(tx.inputs) |-> [op |-> "rm_cell", key |-> <<tx.inputs[i][1], 0>>]]

\* run.rs:179-182, rm_cell(input.previous_output()) for every input
InputCalls(tx) == [i \in 1..Len(tx.inputs) |-> [op |-> "rm_cell", key |-> tx.inputs[i]]]

RECURSIVE TransactionCalls(_, _)
TransactionCalls(block, t) ==
    IF t > Len(block) THEN <<>>
    ELSE OutputCalls(block[t], 0) \o InputCalls(block[t]) \o TransactionCalls(block, t + 1)

BlockCalls(block, number) ==
    TransactionCalls(block, 1) \o << [op |-> "put_prev_number", number |-> number] >>

\* Mutant: only the first input is marked pending.
SpendCallsFirst(batch) == IF batch = <<>> THEN <<>> ELSE << [op |-> "spend_cell", key |-> batch[1].out_point] >>

SpendCalls(batch) == [i \in 1..Len(batch) |-> [op |-> "spend_cell", key |-> batch[i].out_point]]

(***************************************************************************)
(* synchronize, run.rs:145-157: the height to scan next, the skip test and *)
(* the last height of the round.                                           *)
(***************************************************************************)
\* Mutant: the skip test counts the delay twice.
SkipSyncTwiceDelay(next, delay, tip) == next + delay + delay >= tip
\* Mutant: > for >=.
SkipSyncStrict(next, delay, tip) == next + delay > tip
\* Mutant: the range of the loop without its last height.
LastNumberExclusive(tip, delay) == tip - delay - 1

NextNumber(stored, start_block) ==
    LET next == get_next_number(stored) IN IF next = None THEN start_block ELSE next[1]
SkipSync(next, delay, tip) == next + delay >= tip
LastNumber(tip, delay) == tip - delay

(***************************************************************************)
(* Client::check_chain, run.rs:122-135.  The remote's answer is None or a  *)
(* header: [hash |-> ...].                                                 *)
(***************************************************************************)
\* Mutant: the hash of the header is not compared.
check_chain_present(answer, start_hash) == answer # None

start_block_hash == "H1"
HeaderAnswers == {None, Some([hash |-> "H1"]), Some([hash |-> "HX"])}
check_chain(answer, start_hash) == answer # None /\ answer[1].hash = start_hash


(***************************************************************************)
(* The state.                                                              *)
(***************************************************************************)
VARIABLES
    chain,          \* the remote chain
    cells,          \* storage, namespace "cells": the spendable set
    cache,          \* storage, namespace "cache": the pending set
    prev,           \* storage, key "next-block-number": Option<number>
    pc,             \* where the process is
    start_header,   \* what the remote answered check_chain in this run: Option<answer>
    next_num,       \* synchronize: next_num
    tip_num,        \* synchronize: tip_num
    num,            \* synchronize: the height of the loop
    skip_sync,      \* synchronize's result
    scanned,        \* the heights synchronize fetched in this round, in order
    calls,          \* the storage calls the running loop has still to make
    cells_iter,     \* execute: what is left of the load_cells snapshot
    total_inputs,   \* execute: the batch being gathered
    expected_input_size,
    loop_counter,
    snapshot_size,  \* history: the number of cells load_cells yielded this round
    selector_calls, \* history: the calls of fetch_more_inputs in this round
    inputs,         \* execute: the batch of the transaction being sent
    lock_hashes,
    tx,             \* the transaction being sent: Option<transaction>
    ideal,          \* history: the ledger of the run that is never cut short:
                    \* every block whose cursor is stored applied whole and
                    \* once, every sent batch spent whole
    sent,           \* history: the out_points that were inputs of a transaction
                    \* send_transaction answered Ok for
    args,           \* a function applied on its own: its arguments
    ret             \* a function applied on its own: Option<its result>

durable == <<cells, cache, prev>>
sync_locals == <<next_num, tip_num, num, skip_sync, scanned>>
emit_locals == <<cells_iter, total_inputs, expected_input_size, loop_counter,
                 snapshot_size, selector_calls,
                 inputs, lock_hashes, tx>>
vars == <<chain, cells, cache, prev, pc, start_header, next_num, tip_num, num,
          skip_sync, scanned, calls, cells_iter, total_inputs,
          expected_input_size, loop_counter, snapshot_size, selector_calls, inputs, lock_hashes, tx, ideal,
          sent, args, ret>>

Ledger(c, p, n) == [cells |-> c, cache |-> p, prev |-> n]

\* The locals of a process that has not started synchronize / the inner loop.
NoSyncLocals ==
    /\ next_num' = 0 /\ tip_num' = 0 /\ num' = 0
    /\ skip_sync' = FALSE /\ scanned' = <<>>
NoEmitLocals ==
    /\ cells_iter' = <<>> /\ total_inputs' = <<>>
    /\ expected_input_size' = 0 /\ loop_counter' = 0
    /\ snapshot_size' = 0 /\ selector_calls' = 0
    /\ inputs' = <<>> /\ lock_hashes' = <<>> /\ tx' = None

\* The state the process starts from on an empty store.
Engine0 ==
    /\ cells = <<>> /\ cache = <<>> /\ prev = None
    /\ pc = "boot"
    /\ start_header = None
    /\ next_num = 0 /\ tip_num = 0 /\ num = 0
    /\ skip_sync = FALSE /\ scanned = <<>>
    /\ calls = <<>>
    /\ cells_iter = <<>> /\ total_inputs = <<>>
    /\ expected_input_size = 0 /\ loop_counter = 0
    /\ snapshot_size = 0 /\ selector_calls = 0
    /\ inputs = <<>> /\ lock_hashes = <<>> /\ tx = None
    /\ ideal = Ledger(<<>>, <<>>, None)
    /\ sent = {}

Init ==
    /\ chain \in Chains
    /\ Engine0
    /\ args = <<>> /\ ret = None

(***************************************************************************)
(* The whole effect of one storage call, and of a sequence of them.        *)
(***************************************************************************)
CallEffect(l, call) ==
    CASE call.op = "add_cell" ->
            [l EXCEPT !.cells = put(l.cells, call.key, call.info)]
      [] call.op = "rm_cell" ->
            [l EXCEPT !.cells = delete(l.cells, call.key),
                      !.cache = delete(l.cache, call.key)]
      [] call.op = "rm_cell_cache" ->
            [l EXCEPT !.cache = delete(l.cache, call.key)]
      [] call.op = "spend_cell" ->
            IF call.key \in DOMAIN l.cells
            THEN [l EXCEPT !.cells = delete(l.cells, call.key),
                           !.cache = put(l.cache, call.key, l.cells[call.key])]
            ELSE l
      [] call.op = "spend_cell_put" ->
            [l EXCEPT !.cache = put(l.cache, call.key, call.cap)]
      [] call.op = "put_prev_number" ->
            [l EXCEPT !.prev = Some(call.number)]

RECURSIVE RunCalls(_, _)
RunCalls(l, cs) == IF cs = <<>> THEN l ELSE RunCalls(CallEffect(l, Head(cs)), Tail(cs))

(***************************************************************************)
(* RunConfig::execute, run.rs:23-30: the start of a run and check_chain.   *)
(***************************************************************************)
CheckChainOk ==
    /\ pc = "boot"
    /\ \E answer \in HeaderAnswers :
          /\ check_chain(answer, start_block_hash)
          /\ start_header' = Some(answer)
    /\ pc' = "sync"
    /\ UNCHANGED <<chain, args, ret, durable, sync_locals, calls, emit_locals, ideal, sent>>

CheckChainErr ==
    /\ pc = "boot"
    /\ \E answer \in HeaderAnswers :
          /\ ~check_chain(answer, start_block_hash)
          /\ start_header' = Some(answer)
    /\ pc' = "aborted"
    /\ UNCHANGED <<chain, args, ret, durable, sync_locals, calls, emit_locals, ideal, sent>>

(***************************************************************************)
(* synchronize, run.rs:138-188.                                            *)
(***************************************************************************)
Tips == 0..Min(Len(chain), MaxTip)

SyncBegin ==
    /\ pc = "sync"
    /\ \E tip \in Tips :
          LET next == NextNumber(prev, start_block_number)
              skip == SkipSync(next, delay_blocks, tip)
          IN  /\ next_num' = next
              /\ tip_num' = tip
              /\ skip_sync' = skip
              /\ num' = IF skip THEN 0 ELSE next
              /\ pc' = IF skip THEN "synced" ELSE "fetch"
    /\ scanned' = <<>>
    /\ UNCHANGED <<chain, args, ret, durable, start_header, calls, emit_locals, ideal, sent>>

\* get_tip_block_number fails.
SyncTipErr ==
    /\ pc = "sync"
    /\ pc' = "aborted"
    /\ UNCHANGED <<chain, args, ret, durable, start_header, sync_locals, calls, emit_locals, ideal, sent>>

\* get_block_by_number(num) answers the block.
SyncFetch ==
    /\ pc = "fetch"
    /\ num \in 1..Len(chain)
    /\ scanned' = Append(scanned, num)
    /\ calls' = BlockCalls(chain[num], num)
    /\ pc' = "apply"
    /\ UNCHANGED <<chain, args, ret, durable, start_header, next_num, tip_num, num, skip_sync,
                   emit_locals, ideal, sent>>

\* Mutant: the cursor of a height is stored before its block is fetched.
SyncFetchErrCursorFirst ==
    /\ pc = "fetch"
    /\ prev' = Some(num)
    /\ pc' = "aborted"
    /\ UNCHANGED <<chain, args, ret, cells, cache, start_header, sync_locals, calls, emit_locals, ideal, sent>>

\* get_block_by_number(num) fails or answers None.
SyncFetchErr ==
    /\ pc = "fetch"
    /\ pc' = "aborted"
    /\ UNCHANGED <<chain, args, ret, durable, start_header, sync_locals, calls, emit_locals, ideal, sent>>

(***************************************************************************)
(* Storage calls, one action per storage write (storage.rs:127-173).       *)
(***************************************************************************)
InCalls(op) == pc \in {"apply", "spend"} /\ calls # <<>> /\ Head(calls).op = op

\* Storage::add_cell: one put.
add_cell ==
    /\ InCalls("add_cell")
    /\ cells' = put(cells, Head(calls).key, Head(calls).info)
    /\ calls' = Tail(calls)
    /\ UNCHANGED <<chain, args, ret, cache, prev, pc, start_header, sync_locals, emit_locals, ideal, sent>>

\* Mutant: rm_cell deletes from the pending set only.
rm_cell_cells_skip ==
    /\ InCalls("rm_cell")
    /\ calls' = << [op |-> "rm_cell_cache", key |-> Head(calls).key] >> \o Tail(calls)
    /\ UNCHANGED <<chain, args, ret, cells, cache, prev, pc, start_header, sync_locals, emit_locals, ideal, sent>>

\* Storage::rm_cell, its first delete.
rm_cell_cells ==
    /\ InCalls("rm_cell")
    /\ cells' = delete(cells, Head(calls).key)
    /\ calls' = << [op |-> "rm_cell_cache", key |-> Head(calls).key] >> \o Tail(calls)
    /\ UNCHANGED <<chain, args, ret, cache, prev, pc, start_header, sync_locals, emit_locals, ideal, sent>>

\* Storage::rm_cell, its second delete.
rm_cell_cache ==
    /\ InCalls("rm_cell_cache")
    /\ cache' = delete(cache, Head(calls).key)
    /\ calls' = Tail(calls)
    /\ UNCHANGED <<chain, args, ret, cells, prev, pc, start_header, sync_locals, emit_locals, ideal, sent>>

\* Storage::put_prev_number, and the step of the for loop that follows it.
put_prev_number ==
    /\ InCalls("put_prev_number")
    /\ prev' = Some(Head(calls).number)
    /\ calls' = Tail(calls)
    /\ IF num = LastNumber(tip_num, delay_blocks)
       THEN pc' = "synced" /\ num' = num
       ELSE pc' = "fetch" /\ num' = num + 1
    /\ ideal' = RunCalls(ideal, BlockCalls(chain[num], num))
    /\ UNCHANGED <<chain, args, ret, cells, cache, start_header, next_num, tip_num, skip_sync,
                   scanned, emit_locals, sent>>


(***************************************************************************)
(* Arithmetic.  A u64 of the code is a word of 31 bits here (the widest    *)
(* the checker's integers hold); BYTE_SHANNONS keeps its value.            *)
(***************************************************************************)
U64_MAX == 2147483647

\* a - b on u64 with overflow checks off (release): it wraps.
wrapping_sub(a, b) == IF a >= b THEN a - b ELSE ((a - b) + U64_MAX) + 1

RECURSIVE SumCapacity(_)
SumCapacity(infos) ==
    IF infos = <<>> THEN 0
    ELSE Head(infos).cell_info.capacity + SumCapacity(Tail(infos))

(***************************************************************************)
(* slice::sort_by_key, a stable sort, on a sequence of <<key, value>>      *)
(* with integer keys; Vec::dedup.                                          *)
(***************************************************************************)
RECURSIVE InsertByKey(_, _)
InsertByKey(sorted, x) ==
    IF sorted = <<>> THEN <<x>>
    ELSE IF x[1] < Head(sorted)[1] THEN <<x>> \o sorted
    ELSE <<Head(sorted)>> \o InsertByKey(Tail(sorted), x)

RECURSIVE sort_by_key(_)
sort_by_key(pairs) ==
    IF pairs = <<>> THEN <<>>
    ELSE InsertByKey(sort_by_key(SubSeq(pairs, 1, Len(pairs) - 1)), pairs[Len(pairs)])

Values(pairs) == [i \in 1..Len(pairs) |-> pairs[i][2]]

RECURSIVE dedup(_)
dedup(s) ==
    IF Len(s) < 2 THEN s
    ELSE IF s[1] = s[2] THEN dedup(Tail(s))
    ELSE <<s[1]>> \o dedup(Tail(s))

\* The order of H256 lock hashes, of LockScriptId (derive(Ord)) and of the
\* serialized lock scripts.
HashRank(hash) == IF hash = "hA" THEN 1 ELSE 2
IdRank(id) == IF id = "secp256k1_blake160" THEN 1 ELSE 2
ScriptRank(script) == IF script = "A" THEN 1 ELSE IF script = "B" THEN 2 ELSE 3

(***************************************************************************)
(* fetch_more_inputs, run.rs:196-234.                                      *)
(***************************************************************************)
\* Mutant: the threshold without its headroom of one byte.
ValueThresholdNoHeadroom(output_min_bytes) == output_min_bytes * BYTE_SHANNONS

\* run.rs:220
ValueThreshold(output_min_bytes) == (output_min_bytes + 1) * BYTE_SHANNONS

\* Mutant: a batch above the threshold is enough whatever its length.
EnoughInputsAnyLength(last, len, expected, limit) == TRUE

\* run.rs:229
EnoughInputs(last, len, expected, limit) == last \/ len >= Min(expected, limit)

\* Mutant: when the iterator runs out, what was gathered is handed over.
fetch_more_inputs_flush(iter, batch, limit, output_min_bytes, expected) ==
    LET has   == iter # <<>>
        last  == ~has
        iter1 == IF has THEN Tail(iter) ELSE iter
        batch1 == IF has THEN Append(batch, Head(iter)) ELSE batch
        total == SumCapacity(batch1)
        res   == IF ~has /\ batch = <<>> THEN "Lack"
                 ELSE IF last THEN "Enough"
                 ELSE IF total < ValueThreshold(output_min_bytes) THEN "Next"
                 ELSE IF EnoughInputs(last, Len(batch1), expected, limit)
                      THEN "Enough"
                 ELSE "Next"
    IN  [res |-> res, cells_iter |-> iter1, inputs |-> batch1]

fetch_more_inputs(iter, batch, limit, output_min_bytes, expected) ==
    LET has   == iter # <<>>
        last  == ~has
        iter1 == IF has THEN Tail(iter) ELSE iter
        batch1 == IF has THEN Append(batch, Head(iter)) ELSE batch
        total == SumCapacity(batch1)
        res   == IF ~has /\ batch = <<>> THEN "Lack"
                 ELSE IF total < ValueThreshold(output_min_bytes)
                      THEN (IF last THEN "Lack" ELSE "Next")
                 ELSE IF EnoughInputs(last, Len(batch1), expected, limit)
                      THEN "Enough"
                 ELSE "Next"
    IN  [res |-> res, cells_iter |-> iter1, inputs |-> batch1]

(***************************************************************************)
(* prepare_inputs, run.rs:236-258.                                         *)
(***************************************************************************)
\* Mutant: without the second sort, every owner's inputs side by side.
prepare_inputs_grouped(batch) ==
    LET sorted == Values(sort_by_key(
                      [i \in 1..Len(batch) |->
                          <<HashRank(batch[i].cell_info.lock_hash), batch[i]>>]))
    IN  [lock_hashes |-> dedup([i \in 1..Len(sorted) |-> sorted[i].cell_info.lock_hash]),
         inputs |-> sorted]

prepare_inputs(batch) ==
    LET sorted == Values(sort_by_key(
                      [i \in 1..Len(batch) |->
                          <<HashRank(batch[i].cell_info.lock_hash), batch[i]>>]))
        is_first(i) == i = 1 \/ sorted[i - 1].cell_info.lock_hash
                                    # sorted[i].cell_info.lock_hash
        inputs_ext == Values(sort_by_key(
                      [i \in 1..Len(sorted) |->
                          <<(IF is_first(i) THEN 0 ELSE 2)
                              + HashRank(sorted[i].cell_info.lock_hash),
                            <<is_first(i), sorted[i]>> >>]))
        firsts == SelectSeq(inputs_ext, LAMBDA e : e[1])
    IN  [lock_hashes |-> [i \in 1..Len(firsts) |-> firsts[i][2].cell_info.lock_hash],
         inputs |-> [i \in 1..Len(inputs_ext) |-> inputs_ext[i][2]]]

(***************************************************************************)
(* calculate_outputs_count, run.rs:260-271, and construct_raw_transaction, *)
(* run.rs:273-360.  overflow_checks is the build's profile: with it a u64  *)
(* subtraction below zero panics, without it it wraps.                     *)
(***************************************************************************)
\* Mutant: the count is not capped by what the capacity pays for.
calculate_outputs_count_limit(limit, total_shannons, output_shannons, fee_shannons) ==
    LET x == wrapping_sub(total_shannons, fee_shannons) \div output_shannons
    IN  IF x = 0 THEN 1 ELSE limit

\* Mutant: the quotient is rounded up.
calculate_outputs_count_ceil(limit, total_shannons, output_shannons, fee_shannons) ==
    LET x == wrapping_sub(total_shannons, fee_shannons) \div output_shannons
    IN  IF x = 0 THEN 1 ELSE IF x < limit THEN x + 1 ELSE limit

calculate_outputs_count(limit, total_shannons, output_shannons, fee_shannons) ==
    LET x == wrapping_sub(total_shannons, fee_shannons) \div output_shannons
    IN  IF x = 0 THEN 1 ELSE IF x < limit THEN x ELSE limit

\* The per-scheme dependency lists of the metadata (MetaData::lock_deps_dict).
lock_deps_dict ==
    ("secp256k1_blake160" :> <<11>>) @@ ("pwlock-k1-acpl" :> <<12, 11>>)

RECURSIVE Concat(_)
Concat(lists) == IF lists = <<>> THEN <<>> ELSE Head(lists) \o Concat(Tail(lists))

SortInts(s) == Values(sort_by_key([i \in 1..Len(s) |-> <<s[i], s[i]>>]))

\* Mutant: the dependency lists are joined and sorted but not deduplicated.
cell_deps_no_dedup(inputs_info, known_accounts, deps_dict) ==
    LET ranks == dedup(SortInts([i \in 1..Len(inputs_info) |->
                     IdRank(accounts[inputs_info[i].cell_info.lock_hash].id)]))
        id(r) == IF r = 1 THEN "secp256k1_blake160" ELSE "pwlock-k1-acpl"
    IN  IF \E i \in 1..Len(inputs_info) : inputs_info[i].cell_info.lock_hash \notin DOMAIN known_accounts
        THEN [ok |-> FALSE, error |-> "a lock script doesn't set", cell_deps |-> <<>>]
        ELSE IF \E i \in 1..Len(ranks) : id(ranks[i]) \notin DOMAIN deps_dict
        THEN [ok |-> FALSE, error |-> "a lock script doesn't have cell deps", cell_deps |-> <<>>]
        ELSE [ok |-> TRUE, error |-> "",
              cell_deps |-> SortInts(Concat([i \in 1..Len(ranks) |-> deps_dict[id(ranks[i])]]))]

\* run.rs:296-322 under any account map and any dependency dictionary: the
\* scheme ids of the owners, sorted and deduplicated (296-308), the error of
\* an owner that is no account (309), their dependency lists joined, sorted
\* and deduplicated (310-321), the error of a scheme without a list (322).
cell_deps(inputs_info, known_accounts, deps_dict) ==
    IF \E i \in 1..Len(inputs_info) : inputs_info[i].cell_info.lock_hash \notin DOMAIN known_accounts
    THEN [ok |-> FALSE, error |-> "a lock script doesn't set", cell_deps |-> <<>>]
    ELSE LET ranks == dedup(SortInts([i \in 1..Len(inputs_info) |->
                          IdRank(known_accounts[inputs_info[i].cell_info.lock_hash].id)]))
             id(r) == IF r = 1 THEN "secp256k1_blake160" ELSE "pwlock-k1-acpl"
         IN  IF \E i \in 1..Len(ranks) : id(ranks[i]) \notin DOMAIN deps_dict
             THEN [ok |-> FALSE, error |-> "a lock script doesn't have cell deps", cell_deps |-> <<>>]
             ELSE [ok |-> TRUE, error |-> "",
                   cell_deps |-> dedup(SortInts(Concat([i \in 1..Len(ranks) |->
                                                           deps_dict[id(ranks[i])]])))]

\* run.rs:296-322 under the accounts and the dependency lists of the run.
CellDeps(inputs_info) == cell_deps(inputs_info, accounts, lock_deps_dict).cell_deps

\* Mutant: the sort takes the first output too.
OutputsAllSorted(total, limit, output_bytes, fee_shannons, locks) ==
    LET output_shannons == output_bytes * BYTE_SHANNONS
        outputs_count == calculate_outputs_count(limit, total, output_shannons, fee_shannons)
        tmp_cap == wrapping_sub(wrapping_sub(total, fee_shannons),
                                output_shannons * (outputs_count - 1))
        built == [i \in 1..outputs_count |->
                    [capacity |-> IF i = 1 THEN tmp_cap ELSE output_shannons,
                     lock |-> accounts[locks[i]].script]]
    IN  Values(sort_by_key([i \in 1..outputs_count |->
                    <<ScriptRank(built[i].lock), built[i]>>]))

\* run.rs:323-352.  locks[i] is the lock hash the lock generator draws for
\* output i.
Outputs(total, limit, output_bytes, fee_shannons, locks) ==
    LET output_shannons == output_bytes * BYTE_SHANNONS
        outputs_count == calculate_outputs_count(limit, total, output_shannons, fee_shannons)
        tmp_cap == wrapping_sub(wrapping_sub(total, fee_shannons),
                                output_shannons * (outputs_count - 1))
        built == [i \in 1..outputs_count |->
                    [capacity |-> IF i = 1 THEN tmp_cap ELSE output_shannons,
                     lock |-> accounts[locks[i]].script]]
        rest == Values(sort_by_key([i \in 1..(outputs_count - 1) |->
                    <<ScriptRank(built[i + 1].lock), built[i + 1]>>]))
    IN  <<built[1]>> \o rest

\* Whether a subtraction of the builder goes below zero (run.rs:266, 333, 334).
Underflows(total, limit, output_bytes, fee_shannons) ==
    LET output_shannons == output_bytes * BYTE_SHANNONS
        outputs_count == calculate_outputs_count(limit, total, output_shannons, fee_shannons)
    IN  \/ total < fee_shannons
        \/ total - fee_shannons < output_shannons * (outputs_count - 1)

construct_raw_transaction(inputs_info, locks, limit, output_bytes, fee_shannons, overflow_checks) ==
    LET total == SumCapacity(inputs_info)
    IN  IF overflow_checks /\ Underflows(total, limit, output_bytes, fee_shannons)
        THEN [ok |-> FALSE, panic |-> "attempt to subtract with overflow"]
        ELSE [ok |-> TRUE,
              inputs |-> [i \in 1..Len(inputs_info) |-> inputs_info[i].out_point],
              cell_deps |-> CellDeps(inputs_info),
              outputs |-> Outputs(total, limit, output_bytes, fee_shannons, locks)]

\* Mutant: every witness is signed with the key of the first owner.
sign_transaction_first_key(rtx, hashes) ==
    [rtx EXCEPT !.ok = TRUE] @@
    [witnesses |-> [i \in 1..Len(hashes) |->
                       [signer |-> hashes[1], scheme |-> accounts[hashes[1]].id]]]

\* sign_transaction, run.rs:362-392: one witness per lock hash, signed with
\* that account's key.
sign_transaction(rtx, hashes) ==
    [rtx EXCEPT !.ok = TRUE] @@
    [witnesses |-> [i \in 1..Len(hashes) |->
                       [signer |-> hashes[i], scheme |-> accounts[hashes[i]].id]]]


(***************************************************************************)
(* RunConfig::execute, run.rs:42-112: the inner loop.                      *)
(***************************************************************************)
\* What InputSizeGenerator::generate may return.
Targets == 1..MaxTarget

\* Mutant: the snapshot is taken of the spendable and the pending set.
LoadCellsWithPending ==
    /\ pc = "synced"
    /\ cells_iter' = load_cells(cells @@ cache)
    /\ total_inputs' = <<>>
    /\ loop_counter' = 0
    /\ snapshot_size' = Len(load_cells(cells @@ cache)) /\ selector_calls' = 0
    /\ expected_input_size' = 0
    /\ next_num' = 0 /\ tip_num' = 0 /\ num' = 0 /\ scanned' = <<>>
    /\ pc' = "select"
    /\ UNCHANGED <<chain, args, ret, durable, start_header, skip_sync, calls, inputs,
                   lock_hashes, tx, ideal, sent>>

\* run.rs:44-47
LoadCells ==
    /\ pc = "synced"
    /\ cells_iter' = load_cells(cells)
    /\ total_inputs' = <<>>
    /\ loop_counter' = 0
    /\ snapshot_size' = Len(load_cells(cells)) /\ selector_calls' = 0
    /\ expected_input_size' = 0
    /\ next_num' = 0 /\ tip_num' = 0 /\ num' = 0 /\ scanned' = <<>>
    /\ pc' = "select"
    /\ UNCHANGED <<chain, args, ret, durable, start_header, skip_sync, calls, inputs,
                   lock_hashes, tx, ideal, sent>>

\* run.rs:49-51
Expected(drawn) == IF expected_input_size = 0 THEN drawn ELSE expected_input_size

Fetched(drawn) ==
    fetch_more_inputs(cells_iter, total_inputs, inputs_limit, output_min_capacity,
                      Expected(drawn))

\* FetchInputsResult::Lack => break
SelectLack ==
    /\ pc = "select"
    /\ \E drawn \in Targets : Fetched(drawn).res = "Lack"
    /\ pc' = "round_end"
    /\ cells_iter' = <<>> /\ total_inputs' = <<>> /\ expected_input_size' = 0
    /\ selector_calls' = selector_calls + 1
    /\ UNCHANGED <<chain, args, ret, durable, start_header, sync_locals, calls, loop_counter, snapshot_size,
                   inputs, lock_hashes, tx, ideal, sent>>

\* FetchInputsResult::Next => continue
SelectNext ==
    /\ pc = "select"
    /\ \E drawn \in Targets :
          /\ Fetched(drawn).res = "Next"
          /\ cells_iter' = Fetched(drawn).cells_iter
          /\ total_inputs' = Fetched(drawn).inputs
          /\ expected_input_size' = Expected(drawn)
    /\ selector_calls' = selector_calls + 1
    /\ UNCHANGED <<chain, args, ret, durable, pc, start_header, sync_locals, calls, loop_counter, snapshot_size,
                   inputs, lock_hashes, tx, ideal, sent>>

\* FetchInputsResult::Enough, then prepare_inputs, construct_raw_transaction
\* and sign_transaction (run.rs:66-86).
SelectEnough ==
    /\ pc = "select"
    /\ \E drawn \in Targets :
          /\ Fetched(drawn).res = "Enough"
          /\ cells_iter' = Fetched(drawn).cells_iter
          /\ LET prepared == prepare_inputs(Fetched(drawn).inputs)
                 count == calculate_outputs_count(outputs_limit,
                              SumCapacity(prepared.inputs),
                              output_capacity * BYTE_SHANNONS, tx_fee)
             IN  \E locks \in [1..count -> DOMAIN accounts], overflow_checks \in BOOLEAN :
                    LET rtx == construct_raw_transaction(prepared.inputs, locks,
                                   outputs_limit, output_capacity, tx_fee,
                                   overflow_checks)
                    IN  IF rtx.ok
                        THEN /\ tx' = Some(sign_transaction(rtx, prepared.lock_hashes))
                             /\ inputs' = prepared.inputs
                             /\ lock_hashes' = prepared.lock_hashes
                             /\ pc' = "send"
                        ELSE /\ tx' = None /\ inputs' = <<>> /\ lock_hashes' = <<>>
                             /\ pc' = "aborted"
    /\ total_inputs' = <<>>
    /\ expected_input_size' = 0
    /\ loop_counter' = loop_counter + 1
    /\ selector_calls' = selector_calls + 1
    /\ UNCHANGED snapshot_size
    /\ UNCHANGED <<chain, args, ret, durable, start_header, sync_locals, calls, ideal, sent>>

\* send_transaction answers Ok (run.rs:88-93).
SendOk ==
    /\ pc = "send"
    /\ calls' = SpendCalls(inputs)
    /\ ideal' = RunCalls(ideal, SpendCalls(inputs))
    /\ sent' = sent \cup {inputs[i].out_point : i \in 1..Len(inputs)}
    /\ tx' = None
    /\ pc' = "spend"
    /\ UNCHANGED <<chain, args, ret, durable, start_header, sync_locals, cells_iter, total_inputs,
                   expected_input_size, loop_counter, snapshot_size, selector_calls, inputs, lock_hashes>>

\* Mutant: the inputs are marked pending after a failed submission too.
SendErrSpends ==
    /\ pc = "send"
    /\ calls' = SpendCalls(inputs)
    /\ tx' = None
    /\ pc' = "spend"
    /\ UNCHANGED <<chain, args, ret, durable, start_header, sync_locals, cells_iter, total_inputs,
                   expected_input_size, loop_counter, snapshot_size, selector_calls, inputs, lock_hashes, ideal, sent>>

\* Mutant: after a failed submission the inner loop goes on.
SendErrContinue ==
    /\ pc = "send"
    /\ pc' = "select"
    /\ inputs' = <<>> /\ lock_hashes' = <<>> /\ tx' = None
    /\ UNCHANGED <<chain, args, ret, durable, start_header, sync_locals, calls, cells_iter,
                   total_inputs, expected_input_size, loop_counter, snapshot_size, selector_calls, ideal, sent>>

\* send_transaction answers Err (run.rs:95-102): break.
SendErr ==
    /\ pc = "send"
    /\ pc' = "round_end"
    /\ cells_iter' = <<>> /\ total_inputs' = <<>> /\ expected_input_size' = 0
    /\ inputs' = <<>> /\ lock_hashes' = <<>> /\ tx' = None
    /\ UNCHANGED <<chain, args, ret, durable, start_header, sync_locals, calls, loop_counter, snapshot_size, selector_calls, ideal, sent>>

\* Mutant: spend_cell without its delete.
spend_cell_take_keep ==
    /\ InCalls("spend_cell")
    /\ calls' = << [op |-> "spend_cell_put", key |-> Head(calls).key,
                    cap |-> cells[Head(calls).key]] >> \o Tail(calls)
    /\ UNCHANGED <<chain, args, ret, cells, cache, prev, pc, start_header, sync_locals,
                   emit_locals, ideal, sent>>

\* Storage::spend_cell: the get and the delete (storage.rs:157-161).
spend_cell_take ==
    /\ InCalls("spend_cell")
    /\ LET key == Head(calls).key
           cap == get(cells, key)
       IN  IF cap = None
           THEN /\ pc' = "aborted"
                /\ UNCHANGED <<cells, calls>>
           ELSE /\ cells' = delete(cells, key)
                /\ calls' = << [op |-> "spend_cell_put", key |-> key, cap |-> cap[1]] >>
                              \o Tail(calls)
                /\ pc' = pc
    /\ UNCHANGED <<chain, args, ret, cache, prev, start_header, sync_locals, emit_locals, ideal, sent>>

\* Storage::spend_cell: the put (storage.rs:162-164); after the last input
\* the inner loop goes on.
spend_cell_put ==
    /\ InCalls("spend_cell_put")
    /\ cache' = put(cache, Head(calls).key, Head(calls).cap)
    /\ calls' = Tail(calls)
    /\ IF Tail(calls) = <<>>
       THEN pc' = "select" /\ inputs' = <<>> /\ lock_hashes' = <<>>
       ELSE UNCHANGED <<pc, inputs, lock_hashes>>
    /\ UNCHANGED <<chain, args, ret, cells, prev, start_header, sync_locals, cells_iter,
                   total_inputs, expected_input_size, loop_counter, snapshot_size, selector_calls, tx, ideal, sent>>

\* Mutant: the idle sleep after every skipped round.
IdleSleepsAnySkipped(skipped, counter) == skipped

\* run.rs:105, the test of the idle sleep.
IdleSleeps(skipped, counter) == skipped /\ counter = 0

\* run.rs:105-112, the end of one pass of the outer loop: the locals of the
\* pass are dropped, the process sleeps the idle interval or goes on.
RoundEnd ==
    /\ pc = "round_end"
    /\ pc' = IF IdleSleeps(skip_sync, loop_counter) THEN "idle" ELSE "sync"
    /\ NoSyncLocals
    /\ NoEmitLocals
    /\ UNCHANGED <<chain, args, ret, durable, start_header, calls, ideal, sent>>

\* run.rs:106-110, the idle sleep is over.
IdleOver ==
    /\ pc = "idle"
    /\ pc' = "sync"
    /\ UNCHANGED <<chain, args, ret, durable, start_header, sync_locals, calls, emit_locals, ideal, sent>>

(***************************************************************************)
(* The process from outside: killed, and started again.                    *)
(***************************************************************************)
Stop(to) ==
    /\ pc' = to
    /\ start_header' = None
    /\ calls' = <<>>
    /\ NoSyncLocals
    /\ NoEmitLocals
    /\ UNCHANGED <<chain, args, ret, durable, ideal, sent>>

\* Killed inside a sync round.
KillInSync == pc \in {"fetch", "apply"} /\ Stop("down")

\* Killed anywhere else.
KillElsewhere ==
    /\ pc \in {"boot", "sync", "synced", "select", "send", "spend", "round_end", "idle"}
    /\ Stop("down")

Restart == pc \in {"down", "aborted"} /\ Stop("boot")

Next ==
    \/ CheckChainOk \/ CheckChainErr
    \/ SyncBegin \/ SyncTipErr \/ SyncFetch \/ SyncFetchErr
    \/ add_cell \/ rm_cell_cells \/ rm_cell_cache \/ put_prev_number
    \/ LoadCells \/ SelectLack \/ SelectNext \/ SelectEnough
    \/ SendOk \/ SendErr \/ spend_cell_take \/ spend_cell_put
    \/ RoundEnd \/ IdleOver \/ Restart

\* The run without kills: it ends only by an error of its own.
Spec == Init /\ [][Next]_vars

\* With kills inside sync rounds.
SpecSyncKill == Init /\ [][Next \/ KillInSync]_vars

\* With kills anywhere.
SpecKill == Init /\ [][Next \/ KillInSync \/ KillElsewhere]_vars

\* Killed in the emission phase: in the inner loop (run.rs:48-104), between
\* the selection of a batch and the last spend_cell of its inputs.
KillInEmission ==
    /\ pc \in {"select", "send", "spend"}
    /\ Stop("down")

\* With kills in the emission phase only.
SpecEmitKill == Init /\ [][Next \/ KillInEmission]_vars

\* The steps of a run in which every remote call returns and none but
\* send_transaction fails: check_chain passes, the tip and the blocks are
\* answered.
NextLive ==
    \/ CheckChainOk
    \/ SyncBegin \/ SyncFetch
    \/ add_cell \/ rm_cell_cells \/ rm_cell_cache \/ put_prev_number
    \/ LoadCells \/ SelectLack \/ SelectNext \/ SelectEnough
    \/ SendOk \/ SendErr \/ spend_cell_take \/ spend_cell_put
    \/ RoundEnd \/ IdleOver

\* A call of fetch_more_inputs by the inner loop (run.rs:57-69).
SelectorCall == SelectLack \/ SelectNext \/ SelectEnough

\* execute is one sequential loop (run.rs:32-113): while a step of it can
\* be taken the process takes one.  The weak fairness of the selector call
\* is written out, the call being enabled exactly where pc = "select".
SpecLive ==
    /\ Init /\ [][NextLive]_vars
    /\ WF_vars(pc # "select" /\ NextLive)
    /\ ([]<>(pc # "select")) \/ ([]<><<SelectorCall>>_vars)


(***************************************************************************)
(* The simulated restart: after a sync round that scanned next_num..num    *)
(* the process is started again with the cursor put back to where the      *)
(* round began, and no transaction is sent until the range is scanned      *)
(* again.  args remembers the ledger the first scan left.                  *)
(***************************************************************************)
Rewind ==
    /\ pc = "synced" /\ ~skip_sync /\ scanned # <<>>
    /\ args = None
    /\ args' = Some(Ledger(cells, cache, prev))
    /\ prev' = IF next_num = start_block_number THEN None ELSE Some(next_num - 1)
    /\ pc' = "boot"
    /\ start_header' = None
    /\ calls' = <<>>
    /\ NoSyncLocals
    /\ NoEmitLocals
    /\ UNCHANGED <<chain, ret, cells, cache, ideal, sent>>

\* The range was scanned again: the run goes on as any run.
Rescanned ==
    /\ args # None
    /\ pc = "synced"
    /\ prev # None /\ prev[1] >= args[1].prev[1]
    /\ args' = None
    /\ UNCHANGED <<chain, ret, durable, pc, start_header, sync_locals, calls, emit_locals, ideal, sent>>

\* The steps of a run in which send_transaction never answers Ok.
NextNoEmission ==
    \/ CheckChainOk \/ CheckChainErr
    \/ SyncBegin \/ SyncTipErr \/ SyncFetch \/ SyncFetchErr
    \/ add_cell \/ rm_cell_cells \/ rm_cell_cache \/ put_prev_number
    \/ LoadCells \/ SelectLack \/ SelectNext \/ SelectEnough
    \/ SendErr \/ RoundEnd \/ IdleOver \/ Restart

NextResync ==
    \/ args = None /\ Next
    \/ args # None /\ NextNoEmission
    \/ Rewind
    \/ Rescanned

SpecResync == Init /\ [][NextResync]_vars


(***************************************************************************)
(* construct_raw_transaction applied on its own, to every batch,           *)
(* configuration and build profile within the bounds.                      *)
(***************************************************************************)
FeeChoices == {0, 100, 150000000, 500000000}

\* The i-th cell of a batch: any owner, any capacity of whole bytes.
BatchCells(i) ==
    {InputInfo(<<i, 0>>, CellInfo(bytes * BYTE_SHANNONS, hash)) :
        bytes \in 1..MaxCapBytes, hash \in DOMAIN accounts}

Batches ==
    UNION {{b \in [1..n -> UNION {BatchCells(i) : i \in 1..n}] :
               \A i \in 1..n : b[i] \in BatchCells(i)} : n \in 1..MaxBatch}

BuilderArgs ==
    [batch : Batches, outputs_limit : 1..MaxOutputsLimit,
     output_capacity : 1..MaxOutputBytes, tx_fee : FeeChoices,
     overflow_checks : BOOLEAN, locks : {<<>>}]

InitBuilder ==
    /\ chain = ChainLow
    /\ Engine0
    /\ args \in BuilderArgs
    /\ ret = None

Build ==
    /\ pc = "boot"
    /\ ret = None
    /\ args \in BuilderArgs
    /\ LET total == SumCapacity(args.batch)
           count == IF args.overflow_checks /\ total < args.tx_fee THEN 1
                    ELSE calculate_outputs_count(args.outputs_limit, total,
                             args.output_capacity * BYTE_SHANNONS, args.tx_fee)
       IN  \E locks \in [1..count -> DOMAIN accounts] :
              /\ ret' = Some(construct_raw_transaction(args.batch, locks,
                                 args.outputs_limit, args.output_capacity,
                                 args.tx_fee, args.overflow_checks))
              \* what the lock generator drew, kept with the arguments
              /\ args' = [args EXCEPT !.locks = locks]
    /\ UNCHANGED <<chain, durable, pc, start_header, sync_locals, calls, emit_locals,
                   ideal, sent>>

SpecBuilder == InitBuilder /\ [][Build]_vars


(***************************************************************************)
(* prepare_inputs, construct_raw_transaction and sign_transaction applied  *)
(* as execute applies them (run.rs:73-84), to every batch within the       *)
(* bounds, under the configuration of the run.                             *)
(***************************************************************************)
\* The batches of n cells, the i-th any of BatchCells(i).
RECURSIVE BatchesOfLen(_)
BatchesOfLen(n) ==
    IF n = 0 THEN {<<>>}
    ELSE {Append(b, c) : b \in BatchesOfLen(n - 1), c \in BatchCells(n)}

PreparedBatches == UNION {BatchesOfLen(n) : n \in 1..MaxPrepared}

InitPrepare ==
    /\ chain = ChainLow
    /\ Engine0
    /\ args \in [batch : PreparedBatches]
    /\ ret = None

PrepareSign ==
    /\ pc = "boot"
    /\ ret = None
    /\ LET prepared == prepare_inputs(args.batch)
           count == calculate_outputs_count(outputs_limit, SumCapacity(prepared.inputs),
                        output_capacity * BYTE_SHANNONS, tx_fee)
       IN  \E locks \in [1..count -> DOMAIN accounts] :
              LET rtx == construct_raw_transaction(prepared.inputs, locks, outputs_limit,
                             output_capacity, tx_fee, FALSE)
              IN  ret' = Some([lock_hashes |-> prepared.lock_hashes,
                               inputs |-> prepared.inputs,
                               stx |-> sign_transaction(rtx, prepared.lock_hashes)])
    /\ UNCHANGED <<chain, durable, pc, start_header, sync_locals, calls, emit_locals,
                   ideal, sent, args>>

SpecPrepare == InitPrepare /\ [][PrepareSign]_vars


(***************************************************************************)
(* Storage::spend_cell applied on its own (storage.rs:154-165), to every   *)
(* out_point and every store within the bounds: each out_point spendable,  *)
(* pending or in neither set.                                              *)
(***************************************************************************)
\* Mutant: spend_cell without the test of its get; a cell that is not there
\* is marked pending with an empty record.
spend_cell_unchecked(cf_cells, cf_cache, op) == [ok |-> TRUE, error |-> "", cells |-> delete(cf_cells, op), cache |-> put(cf_cache, op, IF op \in DOMAIN cf_cells THEN cf_cells[op] ELSE CellInfo(0, ""))]

\* Storage::spend_cell as one call: its answer and the two namespaces it
\* leaves.
spend_cell(cf_cells, cf_cache, op) ==
    LET cap == get(cf_cells, op)
    IN  IF cap = None
        THEN [ok |-> FALSE, error |-> "storage", cells |-> cf_cells, cache |-> cf_cache]
        ELSE [ok |-> TRUE, error |-> "",
              cells |-> delete(cf_cells, op),
              cache |-> put(cf_cache, op, cap[1])]

StoreKeys == {<<i, 0>> : i \in 1..MaxStoreKeys}

\* The record of the out_point in whichever set holds it.
StoreRecord(key) == CellInfo(key[1] * BYTE_SHANNONS, IF key[1] % 2 = 1 THEN "hA" ELSE "hB")

InitSpendCell ==
    /\ chain = ChainLow
    /\ \E held \in [StoreKeys -> {"neither", "spendable", "pending"}] :
          /\ cells = [k \in {x \in StoreKeys : held[x] = "spendable"} |-> StoreRecord(k)]
          /\ cache = [k \in {x \in StoreKeys : held[x] = "pending"} |-> StoreRecord(k)]
    /\ prev = None
    /\ pc = "boot"
    /\ start_header = None
    /\ next_num = 0 /\ tip_num = 0 /\ num = 0
    /\ skip_sync = FALSE /\ scanned = <<>>
    /\ calls = <<>>
    /\ cells_iter = <<>> /\ total_inputs = <<>>
    /\ expected_input_size = 0 /\ loop_counter = 0
    /\ snapshot_size = 0 /\ selector_calls = 0
    /\ inputs = <<>> /\ lock_hashes = <<>> /\ tx = None
    /\ ideal = Ledger(<<>>, <<>>, None)
    /\ sent = {}
    /\ args \in [op : StoreKeys]
    /\ ret = None

SpendCell ==
    /\ pc = "boot"
    /\ ret = None
    /\ LET r == spend_cell(cells, cache, args.op)
       IN  /\ ret' = Some([ok |-> r.ok, error |-> r.error])
           /\ cells' = r.cells
           /\ cache' = r.cache
    /\ UNCHANGED <<chain, prev, pc, start_header, sync_locals, calls, emit_locals,
                   ideal, sent, args>>

SpecSpendCell == InitSpendCell /\ [][SpendCell]_vars


(***************************************************************************)
(* The Cell Ledger at its interface (storage.rs:147-173): add_cell,        *)
(* spend_cell and rm_cell called in any order on any out_point, each call  *)
(* whole, on a store that starts empty.  args is the last call and ret its *)
(* answer.                                                                 *)
(***************************************************************************)
InitLedger ==
    /\ chain = ChainLow
    /\ Engine0
    /\ args = <<>> /\ ret = None

\* Storage::add_cell, storage.rs:147-152: a put into the cells namespace.
LedgerAddCell ==
    /\ \E key \in StoreKeys :
          /\ cells' = put(cells, key, StoreRecord(key))
          /\ args' = [op |-> "add_cell", key |-> key]
    /\ ret' = Some([ok |-> TRUE, error |-> ""])
    /\ UNCHANGED <<chain, cache, prev, pc, start_header, sync_locals, calls, emit_locals, ideal, sent>>

\* Storage::spend_cell, storage.rs:154-165.
LedgerSpendCell ==
    /\ \E key \in StoreKeys :
          LET r == spend_cell(cells, cache, key)
          IN  /\ cells' = r.cells
              /\ cache' = r.cache
              /\ args' = [op |-> "spend_cell", key |-> key]
              /\ ret' = Some([ok |-> r.ok, error |-> r.error])
    /\ UNCHANGED <<chain, prev, pc, start_header, sync_locals, calls, emit_locals, ideal, sent>>

\* Storage::rm_cell, storage.rs:167-173: a delete in each namespace.
LedgerRmCell ==
    /\ \E key \in StoreKeys :
          /\ cells' = delete(cells, key)
          /\ cache' = delete(cache, key)
          /\ args' = [op |-> "rm_cell", key |-> key]
    /\ ret' = Some([ok |-> TRUE, error |-> ""])
    /\ UNCHANGED <<chain, prev, pc, start_header, sync_locals, calls, emit_locals, ideal, sent>>

SpecLedger == InitLedger /\ [][LedgerAddCell \/ LedgerSpendCell \/ LedgerRmCell]_vars


(***************************************************************************)
(* CellInfo::to_vec and CellInfo::from_slice applied on their own          *)
(* (types/storage.rs:17-31).  Here the capacity has its full width: a u64  *)
(* is four limbs of 16 bits, the lowest first, and a lock hash is its 32   *)
(* bytes.                                                                  *)
(***************************************************************************)
\* Capacity::pack, a packed::Uint64: the 8 bytes of the number, the lowest
\* first.
Uint64Bytes(limbs) ==
    [i \in 1..8 |-> IF i % 2 = 1 THEN limbs[(i + 1) \div 2] % 256
                                 ELSE limbs[i \div 2] \div 256]

\* Uint64::unpack
Uint64Limbs(bytes) == [j \in 1..4 |-> bytes[2 * j - 1] + 256 * bytes[2 * j]]

\* Mutant: the capacity is written with its highest byte first.
to_vec_be(info) == [i \in 1..8 |-> Uint64Bytes(info.capacity)[9 - i]] \o info.lock_hash

\* CellInfo::to_vec
to_vec(info) == Uint64Bytes(info.capacity) \o info.lock_hash

\* CellInfo::from_slice
from_slice(slice) == CellInfo(Uint64Limbs(SubSeq(slice, 1, 8)), SubSeq(slice, 9, 40))

\* The limbs and the lock hashes the records are made of.
LimbSamples == {0, 1, 255, 256, 65535}
HashSamples ==
    {[i \in 1..32 |-> 0], [i \in 1..32 |-> 255], [i \in 1..32 |-> i],
     [i \in 1..32 |-> IF i = 1 THEN 1 ELSE 0], [i \in 1..32 |-> IF i = 32 THEN 1 ELSE 0]}

InitCellInfo ==
    /\ chain = ChainLow
    /\ Engine0
    /\ args \in {CellInfo(capacity, hash) : capacity \in [1..4 -> LimbSamples], hash \in HashSamples}
    /\ ret = None

\* add_cell writes info.to_vec() (storage.rs:150).
Encode ==
    /\ pc = "boot"
    /\ ret = None
    /\ ret' = Some([bytes |-> to_vec(args), decoded |-> None])
    /\ UNCHANGED <<chain, durable, pc, start_header, sync_locals, calls, emit_locals,
                   ideal, sent, args>>

\* load_cells reads the value back with CellInfo::from_slice (storage.rs:181).
Decode ==
    /\ pc = "boot"
    /\ ret # None /\ ret[1].decoded = None
    /\ ret' = Some([ret[1] EXCEPT !.decoded = Some(from_slice(ret[1].bytes))])
    /\ UNCHANGED <<chain, durable, pc, start_header, sync_locals, calls, emit_locals,
                   ideal, sent, args>>

SpecCellInfo == InitCellInfo /\ [][Encode \/ Decode]_vars


(***************************************************************************)
(* The dependency step of construct_raw_transaction applied on its own     *)
(* (run.rs:296-322), to every batch within the bounds, under account maps  *)
(* and dependency dictionaries that may lack an entry.                     *)
(***************************************************************************)
Restrict(map, keys) == [k \in DOMAIN map \cap keys |-> map[k]]

InitCellDeps ==
    /\ chain = ChainLow
    /\ Engine0
    /\ args \in [batch : UNION {BatchesOfLen(n) : n \in 1..MaxBatch},
                  accounts : {Restrict(accounts, known) : known \in SUBSET DOMAIN accounts},
                  lock_deps_dict : {Restrict(lock_deps_dict, listed) :
                                       listed \in SUBSET DOMAIN lock_deps_dict}]
    /\ ret = None

\* The `?` of run.rs:309 and run.rs:322 hands the error to the caller of
\* construct_raw_transaction.
CollectCellDeps ==
    /\ pc = "boot"
    /\ ret = None
    /\ ret' = Some(cell_deps(args.batch, args.accounts, args.lock_deps_dict))
    /\ UNCHANGED <<chain, durable, pc, start_header, sync_locals, calls, emit_locals,
                   ideal, sent, args>>

SpecCellDeps == InitCellDeps /\ [][CollectCellDeps]_vars


(***************************************************************************)
(* What the claims speak of.                                               *)
(***************************************************************************)
AllTxs == UNION {{chain[h][t] : t \in 1..Len(chain[h])} : h \in 1..Len(chain)}

\* The out_point is an output of the chain locked by the account's script.
OwnedOnChain(key, lock_hash) ==
    /\ lock_hash \in DOMAIN accounts
    /\ \E t \in AllTxs :
          /\ t.hash = key[1]
          /\ key[2] < Len(t.outputs)
          /\ t.outputs[key[2] + 1].lock = accounts[lock_hash].script

\* The height to scan next as the stored cursor gives it.
NextOfCursor == IF prev = None THEN start_block_number ELSE prev[1] + 1

RECURSIVE SumOutputs(_)
SumOutputs(outputs) ==
    IF outputs = <<>> THEN 0 ELSE Head(outputs).capacity + SumOutputs(Tail(outputs))

(***************************************************************************)
(* C1: in every state of a run of sync rounds and batch emissions, no      *)
(* out_point is in the spendable set and in the pending set.               *)
(***************************************************************************)
C1_NeverSpendableAndPending == DOMAIN cells \cap DOMAIN cache = {}

\* A sync round is applying a block while cells are pending and spendable.
C1_Witness == pc = "apply" /\ cells # <<>> /\ cache # <<>>

(***************************************************************************)
(* C2: after a kill inside a sync round and a restart, when the next sync  *)
(* round has completed the spendable set, the pending set and the cursor   *)
(* are those of the run that was not cut short.  Stated for the rounds in  *)
(* which the remote tip still confirms the height to scan                  *)
(* (next <= tip - D): the tip has not fallen below the interrupted height. *)
(***************************************************************************)
C2_ResumedAsUninterrupted ==
    (pc = "synced" /\ next_num <= tip_num - delay_blocks)
        => Ledger(cells, cache, prev) = ideal

(***************************************************************************)
(* C3: every write of the cursor stores a height greater than the stored   *)
(* one, and only synchronize's put_prev_number changes the cursor.         *)
(***************************************************************************)
CursorWrite ==
    /\ pc = "apply" /\ calls # <<>> /\ Head(calls).op = "put_prev_number"
    /\ pc' \in {"fetch", "synced"}

C3_CursorOnlyForward ==
    [][ /\ CursorWrite => prev' # None /\ (prev = None \/ prev'[1] > prev[1])
        /\ prev' # prev => CursorWrite ]_vars

\* A round that started from a stored cursor has written the cursor again.
C3_Witness ==
    pc = "fetch" /\ scanned # <<>> /\ next_num > start_block_number /\ prev # None

(***************************************************************************)
(* C4: when the process is killed while it spends the inputs of a sent     *)
(* transaction, every one of them is in exactly one of the two sets, with  *)
(* its record.                                                             *)
(***************************************************************************)
InExactlyOne(info, cf_cells, cf_cache) ==
    LET key == info.out_point
    IN  \/ /\ key \in DOMAIN cf_cells /\ key \notin DOMAIN cf_cache
           /\ cf_cells[key] = info.cell_info
        \/ /\ key \in DOMAIN cf_cache /\ key \notin DOMAIN cf_cells
           /\ cf_cache[key] = info.cell_info

C4_SpendCellAtomic ==
    [][ (pc = "spend" /\ pc' = "down") =>
            \A i \in 1..Len(inputs) : InExactlyOne(inputs[i], cells', cache') ]_vars

(***************************************************************************)
(* C5: for a batch whose capacity is at least the fee, the outputs' sum    *)
(* plus the fee is the inputs' sum, the first output carries               *)
(* total - fee - (count - 1) x per_output_capacity, and no subtraction     *)
(* goes below zero (the build with overflow checks builds it too).         *)
(***************************************************************************)
C5_CapacityConserved ==
    (ret # None /\ SumCapacity(args.batch) >= args.tx_fee) =>
        LET total == SumCapacity(args.batch)
            out == args.output_capacity * BYTE_SHANNONS
            rtx == ret[1]
        IN  /\ rtx.ok
            /\ rtx.outputs[1].capacity
                  = total - args.tx_fee - (Len(rtx.outputs) - 1) * out
            /\ rtx.outputs[1].capacity >= 0
            /\ \A i \in 2..Len(rtx.outputs) : rtx.outputs[i].capacity = out
            /\ SumOutputs(rtx.outputs) + args.tx_fee = total

\* Built with a fee, several outputs, fewer than the capacity would pay for.
C5_Witness ==
    /\ ret # None /\ ret[1].ok
    /\ args.tx_fee > 0 /\ SumCapacity(args.batch) >= args.tx_fee
    /\ Len(ret[1].outputs) >= 2
    /\ Len(ret[1].outputs) = args.outputs_limit
    /\ ret[1].outputs[1].capacity > args.output_capacity * BYTE_SHANNONS

(***************************************************************************)
(* C6: every batch handed to the builder has at most inputs_limit inputs.  *)
(***************************************************************************)
C6_BatchWithinInputsLimit == pc = "send" => Len(inputs) <= inputs_limit

(***************************************************************************)
(* C7: when the remote header at the checkpoint is missing or has another  *)
(* hash, the run aborts, and no block is fetched, nothing is written to    *)
(* the store and no transaction is sent in a run whose check did not pass. *)
(***************************************************************************)
BadHeader ==
    /\ start_header # None
    /\ (start_header[1] = None \/ start_header[1][1].hash # start_block_hash)

GoodHeader ==
    /\ start_header # None /\ start_header[1] # None
    /\ start_header[1][1].hash = start_block_hash

RunEffect ==
    \/ cells' # cells \/ cache' # cache \/ prev' # prev
    \/ Len(scanned') > Len(scanned)
    \/ (pc = "send" /\ pc' \in {"spend", "round_end"})

C7_CheckpointMismatchAborts ==
    /\ [](BadHeader => pc = "aborted")
    /\ [][RunEffect => GoodHeader]_vars

\* A run on a store that holds cells and a cursor aborted at the check.
C7_Witness == pc = "aborted" /\ BadHeader /\ cells # <<>> /\ prev # None

(***************************************************************************)
(* C8: every record of the spendable and of the pending set is owned by a  *)
(* managed account, and is an output of the chain locked by that account's *)
(* script.                                                                 *)
(***************************************************************************)
C8_RecordsAttributed ==
    /\ \A key \in DOMAIN cells : OwnedOnChain(key, cells[key].lock_hash)
    /\ \A key \in DOMAIN cache : OwnedOnChain(key, cache[key].lock_hash)

\* Blocks with foreign outputs were scanned; cells are spendable and pending.
C8_Witness ==
    /\ prev # None /\ cells # <<>> /\ cache # <<>>
    /\ \E t \in AllTxs : \E i \in 1..Len(t.outputs) :
          t.outputs[i].lock = "Z" /\ <<t.hash, i - 1>> \notin DOMAIN cells

(***************************************************************************)
(* C9: when next + D >= tip the sync round fetches no block, leaves the    *)
(* two sets and the cursor as they are and returns skipped = true.         *)
(***************************************************************************)
C9_SkippedRound ==
    [][ (/\ pc = "sync" /\ pc' \notin {"sync", "aborted", "down"}
         /\ NextOfCursor + delay_blocks >= tip_num')
        => /\ pc' = "synced" /\ skip_sync' = TRUE /\ scanned' = <<>>
           /\ cells' = cells /\ cache' = cache /\ prev' = prev ]_vars

\* A round was skipped with next + D = tip, on a store with a cursor.
C9_Witness ==
    /\ pc = "synced" /\ skip_sync /\ prev # None /\ cells # <<>>
    /\ next_num + delay_blocks = tip_num

(***************************************************************************)
(* C10: when next + D < tip (next: the cursor plus one, or the start       *)
(* height without a cursor) the round scans next, next+1, ..., tip - D in  *)
(* this order, each once, the cursor stored after each; at its end the     *)
(* cursor reads tip - D + 1; no height above tip - D is scanned.           *)
(***************************************************************************)
InRound == pc \in {"fetch", "apply", "synced"}

C10_ScansToTipMinusDelay ==
    /\ [](InRound =>
            /\ \A i \in 1..Len(scanned) :
                  scanned[i] = next_num + i - 1 /\ scanned[i] <= tip_num - delay_blocks
            /\ (pc = "fetch" /\ scanned # <<>>) => prev = Some(scanned[Len(scanned)])
            /\ (pc = "fetch") => num = next_num + Len(scanned)
            /\ (pc = "synced" /\ next_num + delay_blocks < tip_num) =>
                  /\ ~skip_sync
                  /\ Len(scanned) = tip_num - delay_blocks - next_num + 1
                  /\ get_next_number(prev) = Some(tip_num - delay_blocks + 1))
    /\ [][ (pc = "sync" /\ pc' \notin {"sync", "aborted", "down"}) =>
              /\ next_num' = NextOfCursor
              /\ (NextOfCursor + delay_blocks < tip_num') => pc' = "fetch" ]_vars

\* A round that started from a stored cursor scanned two heights or more.
C10_Witness ==
    /\ pc = "synced" /\ ~skip_sync /\ Len(scanned) >= 2
    /\ next_num > start_block_number

(***************************************************************************)
(* C11: while a block is processed, an out_point changes its membership or *)
(* its record in the spendable or the pending set only if it is an output  *)
(* of a transaction of the block locked by a managed account's script, or  *)
(* the previous out_point of an input of a transaction of the block.       *)
(***************************************************************************)
OutPoints ==
    UNION {{<<t.hash, i - 1>> : i \in 1..Len(t.outputs)} : t \in AllTxs}
        \cup UNION {{t.inputs[i] : i \in 1..Len(t.inputs)} : t \in AllTxs}

InBlockEffects(block, key) ==
    \E t \in 1..Len(block) :
        \/ /\ block[t].hash = key[1]
           /\ key[2] < Len(block[t].outputs)
           /\ \E hash \in DOMAIN accounts :
                  block[t].outputs[key[2] + 1].lock = accounts[hash].script
        \/ \E i \in 1..Len(block[t].inputs) : block[t].inputs[i] = key

C11_OnlyBlockEffectsChange ==
    [][ pc = "apply" =>
          \A key \in OutPoints \cup DOMAIN cells \cup DOMAIN cache
                       \cup DOMAIN cells' \cup DOMAIN cache' :
              (get(cells, key) # get(cells', key) \/ get(cache, key) # get(cache', key))
                  => InBlockEffects(chain[num], key) ]_vars

\* A block was applied that added a cell and removed a pending one, while
\* cells it does not name stayed spendable and pending.
C11_Witness ==
    /\ pc = "apply" /\ calls # <<>> /\ Head(calls).op = "put_prev_number"
    /\ \E key \in DOMAIN cells : InBlockEffects(chain[num], key)
    /\ \E key \in DOMAIN cells : ~InBlockEffects(chain[num], key)
    /\ \E key \in DOMAIN cache : ~InBlockEffects(chain[num], key)
    /\ \E key \in OutPoints :
          /\ InBlockEffects(chain[num], key)
          /\ key \in DOMAIN ideal.cache /\ key \notin DOMAIN cache

(***************************************************************************)
(* C12: when the synchronizer has scanned again a range of heights it had  *)
(* scanned (the cursor put back, no transaction sent in between), the      *)
(* spendable and the pending set are those the first scan left, each       *)
(* out_point with its one record.                                          *)
(***************************************************************************)
C12_RescanSameLedger ==
    (args # None /\ pc \in {"fetch", "synced"} /\ prev = args[1].prev)
        => cells = args[1].cells /\ cache = args[1].cache

\* A range of two heights or more was scanned again, in one round, on a
\* store that holds spendable and pending cells.
C12_Witness ==
    /\ args # None /\ pc = "synced" /\ prev = args[1].prev
    /\ Len(scanned) >= 2
    /\ cells # <<>> /\ cache # <<>>

(***************************************************************************)
(* C13: for a batch whose capacity is at least the fee, the number of      *)
(* outputs is floor((total - fee) / per_output_capacity), raised to 1 when *)
(* it is below 1 and lowered to outputs_limit when it is above it.         *)
(***************************************************************************)
C13_OutputsCountClamped ==
    (ret # None /\ SumCapacity(args.batch) >= args.tx_fee) =>
        LET q == (SumCapacity(args.batch) - args.tx_fee)
                     \div (args.output_capacity * BYTE_SHANNONS)
        IN  /\ ret[1].ok
            /\ Len(ret[1].outputs) =
                  IF q < 1 THEN 1 ELSE IF q > args.outputs_limit THEN args.outputs_limit ELSE q

\* With a fee, the count is the quotient, above 1 and below outputs_limit.
C13_Witness ==
    /\ ret # None /\ ret[1].ok /\ args.tx_fee > 0
    /\ SumCapacity(args.batch) >= args.tx_fee
    /\ Len(ret[1].outputs) > 1 /\ Len(ret[1].outputs) < args.outputs_limit

(***************************************************************************)
(* C14: for a batch whose capacity is below the fee the builder returns no *)
(* transaction.                                                            *)
(***************************************************************************)
C14_BelowFeeNoTransaction ==
    (ret # None /\ SumCapacity(args.batch) < args.tx_fee) => ~ret[1].ok

(***************************************************************************)
(* C15: in a built transaction the first output is the one built first     *)
(* (it has the lock drawn first, whatever it is), and the outputs after it *)
(* are the other outputs built, in non-decreasing order of their lock      *)
(* scripts.                                                                *)
(***************************************************************************)
LocksDrawn(script, from) ==
    Cardinality({i \in from..Len(args.locks) : accounts[args.locks[i]].script = script})

LocksBuilt(script, outputs, from) ==
    Cardinality({i \in from..Len(outputs) : outputs[i].lock = script})

C15_OutputsAfterFirstSorted ==
    (ret # None /\ ret[1].ok) =>
        LET outputs == ret[1].outputs
        IN  /\ Len(outputs) = Len(args.locks)
            /\ outputs[1].lock = accounts[args.locks[1]].script
            /\ \A i \in 2..(Len(outputs) - 1) :
                  ScriptRank(outputs[i].lock) <= ScriptRank(outputs[i + 1].lock)
            /\ \A hash \in DOMAIN accounts :
                  LocksBuilt(accounts[hash].script, outputs, 2)
                      = LocksDrawn(accounts[hash].script, 2)

\* Three outputs: the first has the greater lock, the two after it were
\* drawn in descending order.
C15_Witness ==
    /\ ret # None /\ ret[1].ok /\ Len(ret[1].outputs) = 3
    /\ ScriptRank(ret[1].outputs[1].lock) > ScriptRank(ret[1].outputs[2].lock)
    /\ ScriptRank(accounts[args.locks[2]].script)
          > ScriptRank(accounts[args.locks[3]].script)

(***************************************************************************)
(* C16 as claimed: prepare_inputs returns the inputs of the batch, once    *)
(* each, every owner's inputs at contiguous positions, and the distinct    *)
(* owners in the order of their inputs.                                    *)
(***************************************************************************)
Owner(info) == info.cell_info.lock_hash

IsPermutation(a, b) ==
    /\ Len(a) = Len(b)
    /\ \A i \in 1..Len(a) : \E j \in 1..Len(b) : a[i] = b[j]
    /\ \A i \in 1..Len(b) : \E j \in 1..Len(a) : b[i] = a[j]

DistinctOwners(infos) == {Owner(infos[i]) : i \in 1..Len(infos)}

C16_OwnersContiguous ==
    ret # None =>
        LET ins == ret[1].inputs
        IN  /\ IsPermutation(ins, args.batch)
            /\ \A i \in 1..Len(ins) : \A k \in i..Len(ins) : \A j \in i..k :
                  Owner(ins[i]) = Owner(ins[k]) => Owner(ins[j]) = Owner(ins[i])
            /\ ret[1].lock_hashes = dedup([i \in 1..Len(ins) |-> Owner(ins[i])])

(***************************************************************************)
(* C16 as amended: prepare_inputs returns the inputs of the batch, once    *)
(* each: first one input of every owner, the owners in ascending order of  *)
(* lock hash, then the other inputs in ascending order of their owner's    *)
(* lock hash (these are contiguous per owner); the list of lock hashes is  *)
(* the owners of the leading inputs, in that order.                        *)
(***************************************************************************)
C16_FirstOfEachOwnerThenGroups ==
    ret # None =>
        LET ins == ret[1].inputs
            hashes == ret[1].lock_hashes
            k == Len(hashes)
        IN  /\ IsPermutation(ins, args.batch)
            /\ k = Cardinality(DistinctOwners(args.batch))
            /\ \A i \in 1..k : Owner(ins[i]) = hashes[i]
            /\ \A i \in 1..(k - 1) : HashRank(hashes[i]) < HashRank(hashes[i + 1])
            /\ \A i \in (k + 1)..(Len(ins) - 1) :
                  HashRank(Owner(ins[i])) <= HashRank(Owner(ins[i + 1]))

\* Two owners with two inputs each, the batch not in the order of owners.
C16_Witness ==
    /\ ret # None /\ Len(args.batch) = 4
    /\ \A hash \in DOMAIN accounts :
          Cardinality({i \in 1..4 : Owner(args.batch[i]) = hash}) = 2
    /\ HashRank(Owner(args.batch[1])) > HashRank(Owner(args.batch[2]))

(***************************************************************************)
(* C17: a signed transaction has one witness per distinct owner of its     *)
(* inputs; witness i is signed with the key of the account lock_hashes[i], *)
(* input i is owned by lock_hashes[i], and every input's owner is in       *)
(* lock_hashes exactly once.                                               *)
(***************************************************************************)
OwnerOfOutPoint(out_point) ==
    Owner(CHOOSE info \in {args.batch[i] : i \in 1..Len(args.batch)} :
              info.out_point = out_point)

C17_WitnessPerOwner ==
    ret # None =>
        LET stx == ret[1].stx
            hashes == ret[1].lock_hashes
        IN  /\ Len(stx.witnesses) = Cardinality(DistinctOwners(args.batch))
            /\ Len(stx.witnesses) = Len(hashes)
            /\ Len(stx.inputs) = Len(args.batch)
            /\ \A i \in 1..Len(hashes) :
                  /\ stx.witnesses[i].signer = hashes[i]
                  /\ stx.witnesses[i].scheme = accounts[hashes[i]].id
                  /\ OwnerOfOutPoint(stx.inputs[i]) = hashes[i]
            /\ \A i \in 1..Len(stx.inputs) :
                  Cardinality({j \in 1..Len(hashes) :
                                  hashes[j] = OwnerOfOutPoint(stx.inputs[i])}) = 1

\* Two witnesses for three inputs or more, the owner of the second witness
\* first in the batch.
C17_Witness ==
    /\ ret # None /\ Len(ret[1].stx.witnesses) = 2 /\ Len(ret[1].stx.inputs) >= 3
    /\ Owner(args.batch[1]) = ret[1].lock_hashes[2]
    /\ Owner(args.batch[2]) = ret[1].lock_hashes[2]

(***************************************************************************)
(* C18 as claimed: whatever target is drawn, the selector answers "enough" *)
(* only for a batch that has min(target, inputs_limit) inputs or more and  *)
(* meets the value threshold, also when the iterator has run out.          *)
(***************************************************************************)
ThresholdShannons == (output_min_capacity + 1) * BYTE_SHANNONS

C18_EnoughOnlyAtTarget ==
    pc = "select" =>
        \A drawn \in Targets :
            Fetched(drawn).res = "Enough" =>
                /\ Len(Fetched(drawn).inputs) >= Min(Expected(drawn), inputs_limit)
                /\ SumCapacity(Fetched(drawn).inputs) >= ThresholdShannons

(***************************************************************************)
(* C18 as amended: whatever target is drawn, the selector answers "enough" *)
(* only for a batch that meets the value threshold and either has          *)
(* min(target, inputs_limit) inputs or more, or is all the iterator had    *)
(* left: a batch below min(target, inputs_limit) inputs is handed to the   *)
(* builder only when the iterator has run out.                             *)
(***************************************************************************)
C18_EnoughAtTargetOrExhausted ==
    /\ pc = "select" =>
          \A drawn \in Targets :
              Fetched(drawn).res = "Enough" =>
                  /\ SumCapacity(Fetched(drawn).inputs) >= ThresholdShannons
                  /\ \/ Len(Fetched(drawn).inputs) >= Min(Expected(drawn), inputs_limit)
                     \/ cells_iter = <<>>
    /\ pc = "send" => SumCapacity(inputs) >= ThresholdShannons /\ inputs # <<>>

\* A batch of inputs_limit inputs, of two owners, was handed over.
C18_Witness == pc = "send" /\ Len(inputs) = inputs_limit /\ Len(lock_hashes) = 2

(***************************************************************************)
(* C19: every batch handed to the builder has a capacity of                *)
(* (output_min_capacity + 1) x 100,000,000 or more, and the selector       *)
(* answers "enough" for no batch below it.                                 *)
(***************************************************************************)
C19_BatchMeetsValueThreshold ==
    /\ pc = "send" => SumCapacity(inputs) >= (output_min_capacity + 1) * 100000000
    /\ pc = "select" =>
          \A drawn \in Targets :
              SumCapacity(Fetched(drawn).inputs) < (output_min_capacity + 1) * 100000000
                  => Fetched(drawn).res # "Enough"

\* A batch of several inputs that is worth the threshold and no more.
C19_Witness ==
    /\ pc = "send" /\ Len(inputs) >= 2
    /\ SumCapacity(inputs) = (output_min_capacity + 1) * 100000000

(***************************************************************************)
(* C20: when the iterator has run out and the batch is empty or below the  *)
(* value threshold, the selector answers "lacking": the inner loop ends,   *)
(* no transaction is built or sent, and the spendable and the pending set  *)
(* stay as they are.                                                       *)
(***************************************************************************)
C20_ExhaustedBelowThresholdLacks ==
    [][ (/\ pc = "select" /\ cells_iter = <<>>
         /\ SumCapacity(total_inputs) < ThresholdShannons
         /\ pc' # "down")
        => /\ pc' = "round_end"
           /\ tx' = None /\ inputs' = <<>> /\ calls' = calls
           /\ loop_counter' = loop_counter
           /\ cells' = cells /\ cache' = cache /\ prev' = prev ]_vars

\* The inner loop ended without a batch, the cells it had gathered still
\* spendable.
C20_Witness ==
    /\ pc = "round_end" /\ loop_counter = 0 /\ tx = None
    /\ cells # <<>>
    /\ SumCapacity(load_cells(cells)) < ThresholdShannons

(***************************************************************************)
(* C21: after send_transaction answered Ok, every input of the transaction *)
(* is moved from the spendable to the pending set, with its record, before *)
(* the inner loop selects again and before any sync round; none of the     *)
(* spend_cell calls fails for a cell that is not there.                    *)
(***************************************************************************)
C21_SentInputsAllPending ==
    [][ /\ (pc = "send" /\ pc' = "spend")
            => /\ Len(calls') = Len(inputs)
               /\ \A i \in 1..Len(inputs) :
                     /\ calls'[i].op = "spend_cell"
                     /\ calls'[i].key = inputs[i].out_point
                     /\ inputs[i].out_point \in DOMAIN cells
        /\ pc = "spend" => pc' \in {"spend", "select"}
        /\ (pc = "spend" /\ pc' = "select")
            => \A i \in 1..Len(inputs) :
                  /\ inputs[i].out_point \notin DOMAIN cells'
                  /\ inputs[i].out_point \in DOMAIN cache'
                  /\ cache'[inputs[i].out_point] = inputs[i].cell_info ]_vars

\* A batch of two inputs was sent and both are pending when the inner loop
\* selects again.
C21_Witness ==
    /\ pc = "select" /\ loop_counter = 1
    /\ Cardinality(DOMAIN cache) = 2 /\ sent = DOMAIN cache

(***************************************************************************)
(* C22: when send_transaction answers Err, no input of the batch is marked *)
(* pending (all stay spendable), the transaction is dropped and not sent   *)
(* again, the inner loop ends without another batch, the next step of the  *)
(* outer loop is a sync round, and the run does not end.                   *)
(***************************************************************************)
C22_FailedSubmissionBreaks ==
    [][ /\ (pc = "send" /\ pc' # "spend")
            => /\ pc' = "round_end"
               /\ cells' = cells /\ cache' = cache /\ prev' = prev
               /\ sent' = sent
               /\ \A i \in 1..Len(inputs) : inputs[i].out_point \in DOMAIN cells'
               /\ tx' = None /\ inputs' = <<>> /\ calls' = <<>>
               /\ cells_iter' = <<>> /\ total_inputs' = <<>>
        /\ (pc = "round_end" /\ loop_counter >= 1)
            => pc' = "sync" /\ tx' = None /\ calls' = <<>> ]_vars

\* The inner loop ended on a batch that was built and whose submission
\* failed: no submission of the run has succeeded and the cells are all
\* spendable.
C22_Witness ==
    /\ pc = "round_end" /\ loop_counter >= 1
    /\ sent = {} /\ cache = <<>> /\ cells # <<>>

(***************************************************************************)
(* C23: an out_point enters the pending set only in the spend_cell of an   *)
(* input of a transaction send_transaction answered Ok for, and leaves it  *)
(* only in the rm_cell of an input of a transaction of the block being     *)
(* applied; no step changes the record of a pending out_point or writes    *)
(* the pending set otherwise, whether or not the process is killed.        *)
(***************************************************************************)
C23_PendingOnlySentUntilConsumed ==
    [][ \A key \in DOMAIN cache \cup DOMAIN cache' :
          /\ (key \notin DOMAIN cache)
                => /\ pc = "spend"
                   /\ key \in sent
                   /\ \E i \in 1..Len(inputs) : inputs[i].out_point = key
          /\ (key \notin DOMAIN cache')
                => /\ pc = "apply"
                   /\ \E t \in 1..Len(chain[num]) :
                         \E i \in 1..Len(chain[num][t].inputs) :
                             chain[num][t].inputs[i] = key
          /\ (key \in DOMAIN cache /\ key \in DOMAIN cache')
                => cache'[key] = cache[key] ]_vars

\* One sent input has left the pending set for a block that consumed it
\* while another is still pending.
C23_Witness ==
    /\ \E key \in sent : key \notin DOMAIN cache /\ key \notin DOMAIN cells
    /\ \E key \in sent : key \in DOMAIN cache

(***************************************************************************)
(* C24: at the end of a pass of the outer loop the process sleeps the idle *)
(* interval if and only if the sync round of the pass was skipped and the  *)
(* inner loop built no batch (a batch whose submission failed counts as    *)
(* built); the idle sleep happens nowhere else and a sync round follows.   *)
(***************************************************************************)
C24_IdleIffSkippedAndNoBatch ==
    [][ /\ pc = "round_end"
            => /\ pc' \in {"idle", "sync"}
               /\ pc' = "idle" <=> (skip_sync /\ loop_counter = 0)
        /\ (pc' = "idle" /\ pc # "idle") => pc = "round_end"
        /\ pc = "idle" => pc' = "sync" ]_vars

\* The process sleeps the idle interval although cells are spendable: the
\* round was skipped and the cells were not worth a batch.
C24_Witness == pc = "idle" /\ cells # <<>>

(***************************************************************************)
(* C25: when get_tip_block_number fails, or get_block_by_number of height  *)
(* h fails or answers no block, the run ends with an error and the store   *)
(* is left as it was: nothing of height h is applied, the heights below h  *)
(* scanned in the round are stored whole with their cursor, and the height *)
(* read back as the next to scan is h.                                     *)
(***************************************************************************)
C25_FetchErrorLeavesHeightUnapplied ==
    [][ /\ (pc = "sync" /\ pc' # "fetch" /\ pc' # "synced")
            => /\ pc' = "aborted"
               /\ cells' = cells /\ cache' = cache /\ prev' = prev
        /\ (pc = "fetch" /\ pc' # "apply")
            => /\ pc' = "aborted"
               /\ cells' = cells /\ cache' = cache /\ prev' = prev
               /\ calls' = <<>>
               /\ NextNumber(prev', start_block_number) = num
               /\ \A h \in next_num..(num - 1) : prev' # None /\ prev'[1] >= h
               /\ Ledger(cells', cache', prev') = ideal' ]_vars

\* The run ended on the fetch of a height after the round had applied the
\* heights below it.
C25_Witness ==
    /\ pc = "aborted" /\ next_num >= 1 /\ num > next_num
    /\ prev = Some(num - 1) /\ cells # <<>>

(***************************************************************************)
(* C26: spend_cell of an out_point that is not in the spendable set (in    *)
(* neither set, or pending already) fails with a storage error and leaves  *)
(* the spendable and the pending set as they were.                         *)
(***************************************************************************)
C26_SpendMissingCellFails ==
    [][ (ret = None /\ ret' # None /\ args.op \notin DOMAIN cells)
        => /\ ~ret'[1].ok /\ ret'[1].error = "storage"
           /\ cells' = cells /\ cache' = cache ]_vars

\* spend_cell failed on an out_point that was pending already.
C26_Witness ==
    /\ ret # None /\ ~ret[1].ok
    /\ args.op \in DOMAIN cache /\ cells # <<>>

(***************************************************************************)
(* C27: the encoding of a CellRecord, of any capacity of 64 bits and any   *)
(* lock hash of 32 bytes, is 40 bytes, 8 bytes of capacity followed by the *)
(* 32 bytes of the lock hash, and decoding it gives back the capacity and  *)
(* the lock hash of the record.                                            *)
(***************************************************************************)
C27_CellInfoRoundTrip ==
    ret # None =>
        /\ Len(ret[1].bytes) = 40
        /\ \A i \in 1..40 : ret[1].bytes[i] \in 0..255
        /\ SubSeq(ret[1].bytes, 9, 40) = args.lock_hash
        /\ ret[1].decoded # None =>
              /\ ret[1].decoded[1].capacity = args.capacity
              /\ ret[1].decoded[1].lock_hash = args.lock_hash

\* A record whose capacity uses its highest and its lowest byte, and whose
\* lock hash is not of one byte value, was encoded and decoded.
C27_Witness ==
    /\ ret # None /\ ret[1].decoded # None
    /\ args.capacity = <<256, 0, 1, 65535>>
    /\ args.lock_hash[1] = 1 /\ args.lock_hash[32] = 32

(***************************************************************************)
(* C28: the dependencies of a built transaction are the dependency lists   *)
(* registered for the lock schemes of the owners of the batch, joined,     *)
(* sorted and without duplicates; when the lock hash of an input is no     *)
(* account, or a scheme of an owner has no registered list, the builder    *)
(* answers an error and builds nothing.                                    *)
(***************************************************************************)
C28_CellDepsSortedUnion ==
    ret # None =>
        LET owners == {args.batch[i].cell_info.lock_hash : i \in 1..Len(args.batch)}
            deps == ret[1].cell_deps
        IN  IF /\ owners \subseteq DOMAIN args.accounts
               /\ \A h \in owners : args.accounts[h].id \in DOMAIN args.lock_deps_dict
            THEN /\ ret[1].ok
                 /\ \A i \in 1..(Len(deps) - 1) : deps[i] < deps[i + 1]
                 /\ {deps[i] : i \in 1..Len(deps)}
                       = UNION {{args.lock_deps_dict[args.accounts[h].id][j] :
                                    j \in 1..Len(args.lock_deps_dict[args.accounts[h].id])} :
                                h \in owners}
            ELSE ~ret[1].ok /\ deps = <<>>

\* The owners of a batch are of two schemes whose lists share a dependency:
\* the transaction depends on it once.
C28_Witness ==
    /\ ret # None /\ ret[1].ok
    /\ Cardinality({args.batch[i].cell_info.lock_hash : i \in 1..Len(args.batch)}) = 2
    /\ ret[1].cell_deps = <<11, 12>>

(***************************************************************************)
(* C29: in a run that is not killed, no out_point is an input of two       *)
(* transactions send_transaction answered Ok for, and no out_point is in   *)
(* two batches of one round: every batch handed to the builder is of       *)
(* distinct out_points none of which was sent before.                      *)
(***************************************************************************)
C29_NoOutPointSentTwice ==
    [][ /\ (pc = "select" /\ pc' = "send")
            => /\ \A i \in 1..Len(inputs') : inputs'[i].out_point \notin sent
               /\ \A i, j \in 1..Len(inputs') :
                     inputs'[i].out_point = inputs'[j].out_point => i = j
        /\ (pc = "send" /\ pc' = "spend")
            => /\ \A i \in 1..Len(inputs) : inputs[i].out_point \notin sent
               /\ Cardinality(sent') = Cardinality(sent) + Len(inputs) ]_vars

\* The second batch of one round was sent, after a first that was sent too.
C29_Witness ==
    /\ pc = "spend" /\ loop_counter >= 2
    /\ Cardinality(sent) > Len(inputs)

(***************************************************************************)
(* C30: when the synchronizer has applied the heights s..h of the chain    *)
(* (s the start height, h the stored cursor) in a run that is not killed,  *)
(* the spendable and the pending set together hold exactly the outputs of  *)
(* the blocks s..h that are locked by the script of an account and that no *)
(* input of the blocks s..h consumes, each with its capacity on the chain  *)
(* and the lock hash of its owner.                                         *)
(***************************************************************************)
ScannedTxs ==
    IF prev = None THEN {}
    ELSE UNION {{chain[h][t] : t \in 1..Len(chain[h])} : h \in start_block_number..prev[1]}

UnspentOwned ==
    {key \in UNION {{<<t.hash, i - 1>> : i \in 1..Len(t.outputs)} : t \in ScannedTxs} :
        /\ \E hash \in DOMAIN accounts : OwnedOnChain(key, hash)
        /\ \A t \in ScannedTxs : \A i \in 1..Len(t.inputs) : t.inputs[i] # key}

OnChainRecord(key) ==
    LET t == CHOOSE x \in ScannedTxs : x.hash = key[1]
        hash == CHOOSE x \in DOMAIN accounts : OwnedOnChain(key, x)
    IN  [capacity |-> t.outputs[key[2] + 1].capacity, lock_hash |-> hash]

C30_LedgerIsUnspentOwnedOutputs ==
    pc \notin {"apply", "spend"} =>
        /\ DOMAIN cells \cup DOMAIN cache = UnspentOwned
        /\ \A key \in DOMAIN cells : cells[key] = OnChainRecord(key)
        /\ \A key \in DOMAIN cache : cache[key] = OnChainRecord(key)

\* The heights 1..3 or more are applied: outputs of theirs are spendable and
\* pending, one is foreign and one was consumed by a later block.
C30_Witness ==
    /\ pc = "synced" /\ prev # None /\ prev[1] >= 3
    /\ cells # <<>> /\ cache # <<>>
    /\ \E t \in ScannedTxs : \E i \in 1..Len(t.outputs) : t.outputs[i].lock = "Z"
    /\ \E t \in ScannedTxs : \E i \in 1..Len(t.inputs) :
          \E hash \in DOMAIN accounts : OwnedOnChain(t.inputs[i], hash)

(***************************************************************************)
(* C31: an out_point that is pending is never spendable again, in a run    *)
(* that is killed and started again too: in every step it stays pending,   *)
(* or the synchronizer removes it from both sets for a block it applies,   *)
(* and it is not in the spendable set after the step.                      *)
(***************************************************************************)
C31_PendingNeverSpendableAgain ==
    [][ \A key \in DOMAIN cache :
          /\ key \notin DOMAIN cells'
          /\ key \in DOMAIN cache' \/ pc = "apply" ]_vars

(***************************************************************************)
(* C32: when the process was killed in the emission phase and is started   *)
(* again, no out_point that was an input of a transaction send_transaction *)
(* had answered Ok for is in the spendable set, and no batch built after   *)
(* the restart holds such an out_point.                                    *)
(***************************************************************************)
C32_SentNotSpendableAfterRestart ==
    /\ pc = "boot" => \A key \in sent : key \notin DOMAIN cells
    /\ pc = "send" => \A i \in 1..Len(inputs) : inputs[i].out_point \notin sent

(***************************************************************************)
(* C33: when every remote call returns and none but the submission fails,  *)
(* every inner loop ends, after no more calls of the selector than the     *)
(* snapshot has cells plus a fixed few, so the sync rounds recur for ever; *)
(* and for every height h, if from some round on the tip read is above     *)
(* h + D, then h is scanned at some time and the cursor passes h.          *)
(***************************************************************************)
ScannedHeights == {scanned[i] : i \in 1..Len(scanned)}

\* The tip of the round, where the round has read it.
TipReadAbove(n) == pc \in {"fetch", "apply", "synced"} => tip_num > n

RoundsRecurHeightsScanned ==
    /\ []<>(pc = "sync")
    /\ \A h \in start_block_number..(MaxTip - delay_blocks - 1) :
          (<>[]TipReadAbove(h + delay_blocks))
              => /\ <>(h \in ScannedHeights)
                 /\ <>(prev # None /\ prev[1] >= h)

\* As the claim has it: one call per cell of the snapshot plus one.
C33_LoopEndsWithinCellsPlusOne ==
    /\ [](selector_calls <= snapshot_size + 1)
    /\ RoundsRecurHeightsScanned

\* One call per cell of the snapshot plus two: the call that finds the
\* iterator exhausted and hands over the batch gathered, and after that
\* batch the call that finds nothing.
C33_LoopEndsWithinCellsPlusTwo ==
    /\ [](selector_calls <= snapshot_size + 2)
    /\ RoundsRecurHeightsScanned

\* An inner loop has ended after as many calls as the snapshot had cells
\* plus two, in a round that came after heights were scanned.
C33_Witness ==
    /\ pc = "round_end" /\ selector_calls = snapshot_size + 2
    /\ snapshot_size >= 1 /\ prev # None /\ prev[1] >= 2

(***************************************************************************)
(* C34: at the interface of the Cell Ledger, after every call of add_cell, *)
(* spend_cell or rm_cell on any out_point, an add_cell on a pending        *)
(* out_point too, no out_point is in the spendable set and in the pending  *)
(* set.                                                                    *)
(***************************************************************************)
C34_NoOutPointInBothSetsAfterCall ==
    ret # None => \A key \in StoreKeys : ~(key \in DOMAIN cells /\ key \in DOMAIN cache)

=============================================================================
